---- MODULE Spec2Model ----
(***************************************************************************)
(* Image validation, audio loading, timing reconciliation, scene          *)
(* scheduling, text layout and sync classification of                      *)
(* .github/scripts/create_video.py, the checks, verdict and output of      *)
(* .github/scripts/validate_duration.py, the timing and metadata output of *)
(* .github/scripts/generate_tts.py, and the posting slots of               *)
(* .github/scripts/optimal_scheduler.py.                                   *)
(*                                                                         *)
(* Times are exact rationals <<n, d>> (d > 0, lowest terms) counted in     *)
(* milliseconds; Python's binary floats are modelled by exact arithmetic.  *)
(* A script text is modelled by what the code reads of it: whether it is   *)
(* the empty string, whether it is only whitespace, and its number of      *)
(* words; a text to lay out is the list of the lengths of its words.       *)
(***************************************************************************)
EXTENDS Integers, Sequences, FiniteSets, TLC

VARIABLES
    hook,             \* script.json "hook"
    bullets,          \* script.json "bullets"
    cta,              \* script.json "cta"
    scene_images,     \* create_video.py scene_images
    duration,         \* audio.duration of voice.mp3
    timing_file,      \* tmp/audio_timing.json as found on disk
    pc,               \* position of create_video.py in its module-level code
    hook_dur,         \* create_video.py hook_dur
    bullet_durs,      \* create_video.py bullet_durs
    cta_dur,          \* create_video.py cta_dur
    total_calculated, \* create_video.py total_calculated (optimized branch only)
    clips,            \* create_video.py clips
    current_time,     \* create_video.py current_time
    sync_message,     \* which of the three SYNC CHECK lines was printed
    sync_status,      \* create_video.py sync_status
    strict_mode,      \* validate_duration.py STRICT_MODE
    video_duration,   \* validate_duration.py video_duration
    audio_exists,     \* validate_duration.py os.path.exists(audio_path)
    audio_duration,   \* validate_duration.py audio_duration (<<>> is None)
    duration_status,  \* validate_duration.py validation_report['duration_status']
    audio_sync,       \* validate_duration.py validation_report['checks']['audio_sync']
    warnings,         \* validate_duration.py validation_report['warnings']
    errors,           \* validate_duration.py validation_report['errors']
    tts_pc,           \* position of generate_tts.py in main()
    probe,            \* what ffprobe reports for voice.mp3 (<<>> when it fails)
    estimated_duration, \* generate_tts.py estimated_duration
    metadata,         \* tmp/audio_metadata.json (<<>> until written)
    scene_text,       \* create_scene's text: the character count of each word
    font_loads,       \* whether ImageFont.truetype(FONT, ...) succeeds
    position_y,       \* create_scene's position_y
    font_size,        \* create_text_with_effects font_size
    wrapped,          \* create_text_with_effects wrapped: the lines, each a list of words
    iterations,       \* create_text_with_effects iterations
    text_h,           \* create_scene text_h (text_clip.h)
    pos_y,            \* create_scene pos_y
    text_pc,          \* position in create_scene's text branch
    weekday,          \* optimal_scheduler.py current.weekday()
    hour,             \* optimal_scheduler.py current.hour
    minute,           \* optimal_scheduler.py current.minute
    ignore_schedule,  \* should_post_now's ignore_schedule
    post_decision,    \* what should_post_now returned (<<>> before the call)
    next_slot,        \* what get_next_optimal_slot returned (<<>> before the call)
    video_exists,     \* validate_duration.py os.path.exists(video_path)
    video_probe,      \* what get_video_duration returns (<<>> is None)
    within_acceptable, \* validation_report['checks']['within_acceptable'] (<<>> when not set)
    overall_status,   \* validation_report['overall_status']
    is_valid,         \* the boolean validate_video returns (<<>> before it returns)
    within_target,    \* the within_target line main writes to GITHUB_OUTPUT
    validate_pc       \* position of validate_duration.py

scriptVars == <<hook, bullets, cta>>
timingVars == <<hook_dur, bullet_durs, cta_dur, total_calculated>>
sceneVars == <<clips, current_time>>
validatorVars == <<strict_mode, video_duration, audio_exists, audio_duration,
                   duration_status, audio_sync, warnings, errors>>
ttsVars == <<tts_pc, probe, estimated_duration, metadata>>
textVars == <<scene_text, font_loads, position_y, font_size, wrapped, iterations,
              text_h, pos_y, text_pc>>
schedVars == <<weekday, hour, minute, ignore_schedule, post_decision, next_slot>>
reportVars == <<video_exists, video_probe, within_acceptable, overall_status,
                is_valid, within_target, validate_pc>>

vars == <<scriptVars, scene_images, duration, timing_file, pc, timingVars,
          sceneVars, sync_message, sync_status, validatorVars, ttsVars,
          textVars, schedVars, reportVars>>

-----------------------------------------------------------------------------
(* Bounds of the model.                                                    *)

MaxBullets == 2

-----------------------------------------------------------------------------
(* Exact rational arithmetic standing for Python float arithmetic.         *)

RECURSIVE GCD(_, _)
GCD(a, b) == IF b = 0 THEN a ELSE GCD(b, a % b)

IAbs(x) == IF x < 0 THEN -x ELSE x

Norm(n, d) ==
    LET s == IF d < 0 THEN -1 ELSE 1
        g == GCD(IAbs(n), IAbs(d))
    IN  <<(s * n) \div g, (s * d) \div g>>

Rat(n) == <<n, 1>>

\* sums and comparisons go through the least common denominator, products
\* cancel crosswise first, so that intermediate values stay small
RAdd(x, y) ==
    LET g == GCD(x[2], y[2])
    IN  Norm(x[1] * (y[2] \div g) + y[1] * (x[2] \div g), (x[2] \div g) * y[2])
RNeg(x)    == <<-x[1], x[2]>>
RSub(x, y) == RAdd(x, RNeg(y))
RMul(x, y) ==
    LET a == Norm(x[1], y[2])
        b == Norm(y[1], x[2])
    IN  Norm(a[1] * b[1], a[2] * b[2])
RDiv(x, y) == RMul(x, Norm(y[2], y[1]))
RLt(x, y)  ==
    LET g == GCD(x[2], y[2])
    IN  x[1] * (y[2] \div g) < y[1] * (x[2] \div g)
RLe(x, y)  == ~RLt(y, x)
RAbs(x)    == <<IAbs(x[1]), x[2]>>
RMax(x, y) == IF RLt(x, y) THEN y ELSE x
IMax(a, b) == IF a < b THEN b ELSE a

RECURSIVE RSum(_)
RSum(s) == IF s = <<>> THEN Rat(0) ELSE RAdd(Head(s), RSum(Tail(s)))

Zero == Rat(0)

-----------------------------------------------------------------------------
(* Texts.                                                                  *)

EmptyText == -1      \* ""
BlankText == 0       \* whitespace only: truthy, no words

Truthy(text)  == text # EmptyText                    \* `if text:`
Words(text)   == IF text > 0 THEN text ELSE 0        \* len(text.split())
Stripped(text) == text > 0                           \* bool(text.strip())

SectionHook == <<"hook">>
SectionCta  == <<"cta">>
SectionBullet(i) == <<"bullet", i>>                  \* f'bullet_{i}', i from 0

AllText(h, bs, c) == <<h>> \o bs \o <<c>>            \* [hook] + bullets + [cta]

RECURSIVE TotalWords(_)
TotalWords(parts) ==                  \* sum(len(t.split()) for t in parts if t)
    IF parts = <<>> THEN 0
    ELSE (IF Truthy(Head(parts)) THEN Words(Head(parts)) ELSE 0)
         + TotalWords(Tail(parts))

-----------------------------------------------------------------------------
(* Timing metadata (tmp/audio_timing.json).                                *)

None == <<>>
Some(x) == <<x>>
Unset == "unset"

AbsentFile     == [exists |-> FALSE, parses |-> FALSE, optimized |-> FALSE,
                   sections |-> <<>>]
UnparsableFile == [exists |-> TRUE, parses |-> FALSE, optimized |-> FALSE,
                   sections |-> <<>>]
TimingDocument(opt, secs) ==
    [exists |-> TRUE, parses |-> TRUE, optimized |-> opt, sections |-> secs]

\* load_audio_timing(): the document when it exists, parses and is optimized
LoadAudioTiming(file) ==
    IF file.exists
    THEN IF file.parses
         THEN IF file.optimized THEN Some(file) ELSE None
         ELSE None
    ELSE None

\* mutant: the entry is taken by its place in the list (hook first, cta last)
FindSection_ByPosition(sections, name) ==
    LET idx == IF name = SectionHook THEN 1
               ELSE IF name = SectionCta THEN Len(sections)
               ELSE name[2] + 2
    IN  IF idx \in 1..Len(sections) THEN Some(sections[idx]) ELSE None

\* next((s for s in sections if s['name'] == name), None)
FindSection(sections, name) ==
    LET hits == {i \in 1..Len(sections) : sections[i].name = name}
    IN  IF hits = {} THEN None
        ELSE Some(sections[CHOOSE i \in hits : \A j \in hits : i <= j])

-----------------------------------------------------------------------------
(* Duration estimators.                                                    *)

FallbackEmptySeconds == 3000          \* return 3.0
FallbackFloor == 2000                 \* max(2.0, duration)

EstimateDurationFallback(text, audio_dur, all_text_parts) ==
    IF ~Truthy(text) \/ all_text_parts = <<>>
    THEN Rat(FallbackEmptySeconds)
    ELSE LET words_this_section == Words(text)
             total_words == TotalWords(all_text_parts)
         IN  IF total_words = 0
             THEN RDiv(audio_dur, Rat(IMax(1, Len(all_text_parts))))
             ELSE RMax(Rat(FallbackFloor),
                       RMul(RDiv(Rat(words_this_section), Rat(total_words)),
                            audio_dur))

WordsPerMinute == 110
MinuteMs == 60000

\* estimate_duration(text): (words / 110) * 60.0
EstimateDuration(text) ==
    RMul(RDiv(Rat(Words(text)), Rat(WordsPerMinute)), Rat(MinuteMs))

-----------------------------------------------------------------------------
(* Scene images and narration audio.                                       *)

Narrations == {Rat(6000), Rat(12000), Rat(12300)}

GeneratedImage == <<"scene">>         \* a generated scene_*.jpg of >= 1000 bytes
FallbackImage(scene_type) == <<"scene_fallback", scene_type>>

scene_types == <<"pain", "wake_up", "transformation", "action">>

IMin(a, b) == IF a < b THEN a ELSE b

\* `not img or not os.path.exists(img) or os.path.getsize(img) < 1000`
ImageInvalid(img) == img = None

\* mutant: invalid scene images are left as they are
ValidateImages_KeepsInvalid ==
    /\ pc = "start"
    /\ pc' = "validated"
    /\ UNCHANGED <<textVars, schedVars, reportVars, scriptVars, scene_images, duration, timing_file, timingVars,
                   sceneVars, sync_message, sync_status, validatorVars, ttsVars>>

\* the validation loop: a gradient file replaces every invalid scene image
ValidateImages ==
    /\ pc = "start"
    /\ scene_images' =
           [k \in 1..Len(scene_images) |->
               IF ImageInvalid(scene_images[k])
               THEN FallbackImage(scene_types[IMin(k - 1, Len(scene_types) - 1) + 1])
               ELSE scene_images[k]]
    /\ pc' = "validated"
    /\ UNCHANGED <<textVars, schedVars, reportVars, scriptVars, duration, timing_file, timingVars, sceneVars,
                   sync_message, sync_status, validatorVars, ttsVars>>

\* voice.mp3 is missing (FileNotFoundError) or AudioFileClip cannot read it
AudioMissing ==
    /\ pc' = "no_audio"
    /\ UNCHANGED duration

AudioLoaded(d) ==
    /\ duration' = d
    /\ pc' = "loaded"

LoadAudio ==
    /\ pc = "validated"
    /\ \/ AudioMissing
       \/ \E d \in Narrations : AudioLoaded(d)
    /\ UNCHANGED <<textVars, schedVars, reportVars, scriptVars, scene_images, timing_file, timingVars, sceneVars,
                   sync_message, sync_status, validatorVars, ttsVars>>

-----------------------------------------------------------------------------
(* Timing reconciliation, optimized branch.                                *)

\* mutant: the metadata entry is never used
ResolveSection_EstimateOnly(sections, name, text, h, bs, c, audio_dur) ==
    EstimateDurationFallback(text, audio_dur, AllText(h, bs, c))

\* duration of one section: from the metadata entry of that name, else estimated
ResolveSection(sections, name, text, h, bs, c, audio_dur) ==
    LET section == FindSection(sections, name)
    IN  IF section # None
        THEN section[1].duration
        ELSE EstimateDurationFallback(text, audio_dur, AllText(h, bs, c))

ResolveHook(sections, h, bs, c, audio_dur) ==
    IF Truthy(h)
    THEN ResolveSection(sections, SectionHook, h, h, bs, c, audio_dur)
    ELSE Zero

ResolveBullets(sections, h, bs, c, audio_dur) ==
    [i \in 1..Len(bs) |->
        ResolveSection(sections, SectionBullet(i - 1), bs[i], h, bs, c, audio_dur)]

ResolveCta(sections, h, bs, c, audio_dur) ==
    IF Truthy(c)
    THEN ResolveSection(sections, SectionCta, c, h, bs, c, audio_dur)
    ELSE Zero

MismatchTolerance == 500              \* abs(total_calculated - duration) > 0.5

NeedsAdjustment(total, audio_dur) ==
    RLt(Rat(MismatchTolerance), RAbs(RSub(total, audio_dur)))

AdjustmentFactor(audio_dur, total) == RDiv(audio_dur, total)

Adjust(d, factor) == RMul(d, factor)

\* the optimized branch: resolved durations, their total, the adjustment
ReconcileOptimized(sections) ==
    LET h == ResolveHook(sections, hook, bullets, cta, duration)
        bs == ResolveBullets(sections, hook, bullets, cta, duration)
        c == ResolveCta(sections, hook, bullets, cta, duration)
        total == RAdd(RAdd(h, RSum(bs)), c)
    IN  /\ total_calculated' = Some(total)
        /\ IF NeedsAdjustment(total, duration)
           THEN IF total = Zero
                THEN \* duration / total_calculated raises ZeroDivisionError
                     /\ pc' = "crashed"
                     /\ hook_dur' = h
                     /\ bullet_durs' = bs
                     /\ cta_dur' = c
                ELSE LET adjustment_factor == AdjustmentFactor(duration, total)
                     IN  /\ pc' = "timed"
                         /\ hook_dur' = Adjust(h, adjustment_factor)
                         /\ bullet_durs' =
                                [i \in 1..Len(bs) |-> Adjust(bs[i], adjustment_factor)]
                         /\ cta_dur' = Adjust(c, adjustment_factor)
           ELSE /\ pc' = "timed"
                /\ hook_dur' = h
                /\ bullet_durs' = bs
                /\ cta_dur' = c

\* the estimation branch: words-per-minute estimates scaled to the audio
ReconcileEstimated ==
    LET hook_est == IF Truthy(hook) THEN EstimateDuration(hook) ELSE Zero
        bullets_est == [i \in 1..Len(bullets) |-> EstimateDuration(bullets[i])]
        cta_est == IF Truthy(cta) THEN EstimateDuration(cta) ELSE Zero
        total_est == RAdd(RAdd(hook_est, RSum(bullets_est)), cta_est)
    IN  /\ total_calculated' = None
        /\ pc' = "timed"
        /\ IF RLt(Zero, total_est)
           THEN LET scale == RDiv(duration, total_est)
                IN  /\ hook_dur' = RMul(hook_est, scale)
                    /\ bullet_durs' =
                           [i \in 1..Len(bullets) |-> RMul(bullets_est[i], scale)]
                    /\ cta_dur' = RMul(cta_est, scale)
           ELSE LET equal == RDiv(duration, Rat(IMax(1, Len(bullets) + 2)))
                IN  /\ hook_dur' = equal
                    /\ bullet_durs' = [i \in 1..Len(bullets) |-> equal]
                    /\ cta_dur' = equal

\* mutant: any document that parses is taken as measured
UsesOptimized_AnyParsedDocument(file) ==
    file.exists /\ file.parses

\* `if timing_data and timing_data.get('optimized'):`
UsesOptimized(file) ==
    LET timing_data == LoadAudioTiming(file)
    IN  timing_data # None /\ timing_data[1].optimized

Reconcile ==
    /\ pc = "loaded"
    /\ IF UsesOptimized(timing_file)
       THEN \* timing_data is the loaded document
            ReconcileOptimized(timing_file.sections)
       ELSE ReconcileEstimated
    /\ UNCHANGED <<textVars, schedVars, reportVars, scriptVars, scene_images, duration, timing_file, sceneVars,
                   sync_message, sync_status, validatorVars, ttsVars>>

-----------------------------------------------------------------------------
(* Scene composition.                                                      *)

CrossFade == 300                      \* vfx.CrossFadeIn(0.3), vfx.CrossFadeOut(0.3)

\* ImageClip(image_path)...with_effects([CrossFadeIn(0.3), CrossFadeOut(0.3)])
ImageClip(section, image, start, dur) ==
    [kind |-> "background", section |-> section, start |-> start,
     duration |-> dur, image |-> image, color |-> "none",
     fade_in |-> CrossFade, fade_out |-> CrossFade]

\* ColorClip(size=(w, h), color=color, duration=dur).with_start(start)
ColorClip(kind, section, color, start, dur) ==
    [kind |-> kind, section |-> section, start |-> start,
     duration |-> dur, image |-> None, color |-> color,
     fade_in |-> 0, fade_out |-> 0]

\* TextClip(...)...with_effects([CrossFadeIn(0.3), CrossFadeOut(0.3)])
TextClip(section, start, dur) ==
    [kind |-> "text", section |-> section, start |-> start,
     duration |-> dur, image |-> None, color |-> "white",
     fade_in |-> CrossFade, fade_out |-> CrossFade]

\* mutant: a scene on a fallback image starts half a second late
CreateScene_FallbackDelayed(section, image, text, dur, start_time, color_fallback) ==
    LET start == IF image # None /\ image # GeneratedImage
                 THEN RAdd(start_time, Rat(500)) ELSE start_time
    IN  <<IF image # None
          THEN ImageClip(section, image, start, dur)
          ELSE ColorClip("background", section, color_fallback, start, dur)>>
        \o (IF Truthy(text) THEN <<TextClip(section, start, dur)>> ELSE <<>>)

\* create_scene(): a background clip, and a text clip when the text is non-empty
CreateScene(section, image, text, dur, start_time, color_fallback) ==
    <<IF image # None
      THEN ImageClip(section, image, start_time, dur)
      ELSE ColorClip("background", section, color_fallback, start_time, dur)>>
    \o (IF Truthy(text) THEN <<TextClip(section, start_time, dur)>> ELSE <<>>)

\* colors[i % len(colors)] of the bullet loop
BulletColors == <<"fire_red", "orange_highlight", "gold_triumph">>

\* one pass of the bullet loop: a placeholder for a blank bullet, else a scene
BulletClips(i, bullet, dur, start_time) ==
    IF ~Stripped(bullet)
    THEN <<ColorClip("placeholder", SectionBullet(i), "deep_black", start_time, dur)>>
    ELSE LET img_idx == IMin(i + 1, Len(scene_images) - 1)
         IN  CreateScene(SectionBullet(i), scene_images[img_idx + 1], bullet, dur,
                         start_time, BulletColors[(i % Len(BulletColors)) + 1])

\* mutant: a placeholder does not advance current_time
RECURSIVE BuildBullets_PlaceholderNoAdvance(_, _, _, _, _)
BuildBullets_PlaceholderNoAdvance(i, bs, durs, cs, t) ==
    IF i >= Len(bs) THEN <<cs, t>>
    ELSE BuildBullets_PlaceholderNoAdvance(
             i + 1, bs, durs,
             cs \o BulletClips(i, bs[i + 1], durs[i + 1], t),
             IF ~Stripped(bs[i + 1]) THEN t ELSE RAdd(t, durs[i + 1]))

\* the bullet loop: clips and current_time after bullets i, i+1, ...
RECURSIVE BuildBullets(_, _, _, _, _)
BuildBullets(i, bs, durs, cs, t) ==
    IF i >= Len(bs) THEN <<cs, t>>
    ELSE BuildBullets(i + 1, bs, durs,
                      cs \o BulletClips(i, bs[i + 1], durs[i + 1], t),
                      RAdd(t, durs[i + 1]))

BuildScenes ==
    /\ pc = "timed"
    /\ LET afterHook ==
               IF Truthy(hook)
               THEN <<CreateScene(SectionHook, scene_images[1], hook, hook_dur,
                                  Zero, "teal_shadow"),
                      RAdd(Zero, hook_dur)>>
               ELSE <<<<>>, Zero>>
           afterBullets ==
               BuildBullets(0, bullets, bullet_durs, afterHook[1], afterHook[2])
           afterCta ==
               IF Truthy(cta)
               THEN <<afterBullets[1]
                        \o CreateScene(SectionCta, scene_images[Len(scene_images)],
                                       cta, cta_dur, afterBullets[2],
                                       "steel_gray"),
                      RAdd(afterBullets[2], cta_dur)>>
               ELSE afterBullets
       IN  /\ clips' = afterCta[1]
           /\ current_time' = afterCta[2]
    /\ pc' = "built"
    /\ UNCHANGED <<textVars, schedVars, reportVars, scriptVars, scene_images, duration, timing_file, timingVars,
                   sync_message, sync_status, validatorVars, ttsVars>>

-----------------------------------------------------------------------------
(* Sync classification.                                                    *)

PerfectThreshold == 50                \* < 0.05
ExcellentThreshold == 500             \* < 0.5

\* mutant: the boundaries 50 ms and 500 ms fall into the lower class
SyncMessage_InclusiveBounds(timeline, audio_dur) ==
    IF RLe(RAbs(RSub(timeline, audio_dur)), Rat(PerfectThreshold))
    THEN "NEAR-PERFECT SYNC"
    ELSE IF RLe(RAbs(RSub(timeline, audio_dur)), Rat(ExcellentThreshold))
         THEN "Excellent sync"
         ELSE "Sync drift detected"

\* the SYNC CHECK printout of create_video.py
SyncMessage(timeline, audio_dur) ==
    IF RLt(RAbs(RSub(timeline, audio_dur)), Rat(PerfectThreshold))
    THEN "NEAR-PERFECT SYNC"
    ELSE IF RLt(RAbs(RSub(timeline, audio_dur)), Rat(ExcellentThreshold))
         THEN "Excellent sync"
         ELSE "Sync drift detected"

\* sync_status of create_video.py, set after the video is written
SyncStatus(timeline, audio_dur) ==
    IF RLt(RAbs(RSub(timeline, audio_dur)), Rat(PerfectThreshold))
    THEN "NEAR-PERFECT"
    ELSE IF RLt(RAbs(RSub(timeline, audio_dur)), Rat(ExcellentThreshold))
         THEN "EXCELLENT"
         ELSE "GOOD"

\* mutant: a detected drift re-times the timeline to the narration
SyncCheck_RetimeOnDrift ==
    /\ pc = "built"
    /\ sync_message' = SyncMessage(current_time, duration)
    /\ pc' = "checked"
    /\ current_time' = IF sync_message' = "Sync drift detected"
                       THEN duration ELSE current_time
    /\ UNCHANGED <<textVars, schedVars, reportVars, scriptVars, scene_images, duration, timing_file, timingVars,
                   clips, sync_status, validatorVars, ttsVars>>

SyncCheck ==
    /\ pc = "built"
    /\ sync_message' = SyncMessage(current_time, duration)
    /\ pc' = "checked"
    /\ UNCHANGED <<textVars, schedVars, reportVars, scriptVars, scene_images, duration, timing_file, timingVars,
                   sceneVars, sync_status, validatorVars, ttsVars>>

\* CompositeVideoClip(clips), the audio attachment and write_videofile.  What
\* the library does with an empty clip list is not decided by this code: the
\* composition either raises or goes through.
WriteVideo ==
    /\ pc = "checked"
    /\ \/ /\ sync_status' = SyncStatus(current_time, duration)
          /\ pc' = "done"
       \/ /\ clips = <<>>
          /\ pc' = "compose_failed"
          /\ UNCHANGED sync_status
    /\ UNCHANGED <<textVars, schedVars, reportVars, scriptVars, scene_images, duration, timing_file, timingVars,
                   sceneVars, sync_message, validatorVars, ttsVars>>

-----------------------------------------------------------------------------
(* validate_duration.py: checks 3 and 4 of validate_video().               *)

TargetMin == 9000                     \* TARGET_MIN = 9.0
TargetMax == 16000                    \* TARGET_MAX = 16.0
OptimalMin == 10000                   \* OPTIMAL_MIN = 10.0
OptimalMax == 15000                   \* OPTIMAL_MAX = 15.0

WithinOptimal(d) == RLe(Rat(OptimalMin), d) /\ RLe(d, Rat(OptimalMax))
WithinAcceptable(d) == RLe(Rat(TargetMin), d) /\ RLe(d, Rat(TargetMax))

\* checks 1 and 2: the video file exists and its duration can be read;
\* otherwise validate_video returns False with overall_status FAILED
CheckVideo ==
    /\ validate_pc = "start"
    /\ IF ~ video_exists \/ video_probe = None
       THEN /\ errors' = Append(errors, IF ~ video_exists
                                        THEN "video file not found"
                                        ELSE "could not determine video duration")
            /\ overall_status' = "FAILED"
            /\ is_valid' = Some(FALSE)
            /\ validate_pc' = "returned"
            /\ UNCHANGED video_duration
       ELSE /\ video_duration' = video_probe[1]
            /\ validate_pc' = "measured"
            /\ UNCHANGED <<errors, overall_status, is_valid>>
    /\ UNCHANGED <<video_exists, video_probe, within_acceptable, within_target>>
    /\ UNCHANGED <<strict_mode, audio_exists, audio_duration, duration_status,
                   audio_sync, warnings>>
    /\ UNCHANGED <<textVars, schedVars, scriptVars, scene_images, duration,
                   timing_file, pc, timingVars, sceneVars, sync_message,
                   sync_status, ttsVars>>

\* check 3: the duration against the target range
ValidateRange ==
    /\ validate_pc = "measured"
    /\ duration_status = Unset
    /\ IF WithinOptimal(video_duration)
       THEN /\ duration_status' = "OPTIMAL"
            /\ UNCHANGED <<warnings, errors, within_acceptable>>
       ELSE IF WithinAcceptable(video_duration)
            THEN /\ duration_status' = "ACCEPTABLE"
                 /\ within_acceptable' = Some(TRUE)
                 /\ warnings' = Append(warnings, "acceptable but not optimal")
                 /\ UNCHANGED errors
            ELSE /\ duration_status' =
                        IF RLt(Rat(TargetMax), video_duration)
                        THEN "TOO_LONG" ELSE "TOO_SHORT"
                 /\ within_acceptable' = Some(FALSE)
                 /\ IF strict_mode
                    THEN /\ errors' = Append(errors, "outside target range")
                         /\ UNCHANGED warnings
                    ELSE /\ warnings' = Append(warnings, "outside target range")
                         /\ UNCHANGED errors
    /\ UNCHANGED <<video_exists, video_probe, overall_status, is_valid,
                   within_target, validate_pc>>
    /\ UNCHANGED <<textVars, schedVars, scriptVars, scene_images, duration, timing_file, pc, timingVars,
                   sceneVars, sync_message, sync_status, strict_mode,
                   video_duration, audio_exists, audio_duration, audio_sync,
                   ttsVars>>

\* mutant: the 500 ms test comes before the 50 ms test
AudioSync_SwappedTests(video_dur, exists, audio_dur) ==
    IF exists
    THEN IF audio_dur # None /\ audio_dur[1] # Zero
         THEN LET drift == RAbs(RSub(video_dur, audio_dur[1]))
              IN  IF RLt(drift, Rat(ExcellentThreshold)) THEN "EXCELLENT"
                  ELSE IF RLt(drift, Rat(PerfectThreshold)) THEN "PERFECT"
                       ELSE "ACCEPTABLE"
         ELSE "UNKNOWN"
    ELSE "SKIPPED"

\* validate_duration.py, check 4: the class recorded under checks['audio_sync']
AudioSync(video_dur, exists, audio_dur) ==
    IF exists
    THEN IF audio_dur # None /\ audio_dur[1] # Zero
         THEN LET drift == RAbs(RSub(video_dur, audio_dur[1]))
              IN  IF RLt(drift, Rat(PerfectThreshold)) THEN "PERFECT"
                  ELSE IF RLt(drift, Rat(ExcellentThreshold)) THEN "EXCELLENT"
                       ELSE "ACCEPTABLE"
         ELSE "UNKNOWN"
    ELSE "SKIPPED"

\* check 4: the audio/video drift
ValidateAudioSync ==
    /\ validate_pc = "measured"
    /\ duration_status # Unset
    /\ audio_sync = Unset
    /\ audio_sync' = AudioSync(video_duration, audio_exists, audio_duration)
    /\ warnings' = IF audio_sync' = "ACCEPTABLE"
                   THEN Append(warnings, "drift exceeds 500ms")
                   ELSE warnings
    /\ UNCHANGED <<textVars, schedVars, reportVars, scriptVars, scene_images, duration, timing_file, pc, timingVars,
                   sceneVars, sync_message, sync_status, strict_mode,
                   video_duration, audio_exists, audio_duration, duration_status,
                   errors, ttsVars>>

\* mutant: a report with warnings is not valid either
Summarize_WarningsBlock ==
    /\ validate_pc = "measured"
    /\ audio_sync # Unset
    /\ \E poor \in BOOLEAN :
          warnings' = IF poor
                      THEN Append(warnings, "estimation error exceeds 2s")
                      ELSE warnings
    /\ overall_status' = IF errors # <<>> THEN "FAILED"
                         ELSE IF warnings' # <<>> THEN "WARNING" ELSE "PASSED"
    /\ is_valid' = Some(errors = <<>> /\ warnings' = <<>>)
    /\ validate_pc' = "returned"
    /\ UNCHANGED <<video_exists, video_probe, within_acceptable, within_target>>
    /\ UNCHANGED <<strict_mode, video_duration, audio_exists, audio_duration,
                   duration_status, audio_sync, errors>>
    /\ UNCHANGED <<textVars, schedVars, scriptVars, scene_images, duration,
                   timing_file, pc, timingVars, sceneVars, sync_message,
                   sync_status, ttsVars>>

\* checks 5 and 6 (the estimate of script.json, when there is one, may add a
\* warning), the overall status and the value validate_video returns
Summarize ==
    /\ validate_pc = "measured"
    /\ audio_sync # Unset
    /\ \E poor \in BOOLEAN :
          warnings' = IF poor
                      THEN Append(warnings, "estimation error exceeds 2s")
                      ELSE warnings
    /\ overall_status' = IF errors # <<>> THEN "FAILED"
                         ELSE IF warnings' # <<>> THEN "WARNING" ELSE "PASSED"
    /\ is_valid' = Some(~ (strict_mode /\ errors # <<>>))
    /\ validate_pc' = "returned"
    /\ UNCHANGED <<video_exists, video_probe, within_acceptable, within_target>>
    /\ UNCHANGED <<strict_mode, video_duration, audio_exists, audio_duration,
                   duration_status, audio_sync, errors>>
    /\ UNCHANGED <<textVars, schedVars, scriptVars, scene_images, duration,
                   timing_file, pc, timingVars, sceneVars, sync_message,
                   sync_status, ttsVars>>

\* main(): report.get('checks', {}).get('within_acceptable', False) decides
\* the within_target line of GITHUB_OUTPUT
WriteOutput ==
    /\ validate_pc = "returned"
    /\ within_target' = IF within_acceptable = Some(TRUE) THEN "true" ELSE "false"
    /\ validate_pc' = "exited"
    /\ UNCHANGED <<video_exists, video_probe, within_acceptable, overall_status,
                   is_valid>>
    /\ UNCHANGED <<textVars, schedVars, scriptVars, scene_images, duration,
                   timing_file, pc, timingVars, sceneVars, sync_message,
                   sync_status, validatorVars, ttsVars>>

-----------------------------------------------------------------------------
(* generate_tts.py: main() for content_type 'general'.                     *)

HookPause == 300                      \* 'pause_after': 0.3
BulletPause == 500                    \* 'pause_after': 0.5
CtaPause == 300                       \* 'pause_after': 0.3
BaseWpm == 110                        \* base_wpm['general']
SpeedSetting == <<4, 5>>              \* SPEED_SETTINGS['general'] = 0.80

\* len(text.split()) of text.strip() with '.' appended when it lacks one
TtsWords(text) == IF text > 0 THEN text ELSE 1

TtsSection(name, text, pause) ==
    [name |-> name, words |-> TtsWords(text), pause_after |-> pause]

\* mutant: the bullets are named from bullet_1
BuildTtsSections_NamedFromOne(h, bs, c) ==
    (IF Truthy(h) THEN <<TtsSection(SectionHook, h, HookPause)>> ELSE <<>>)
    \o [i \in 1..Len(bs) |-> TtsSection(SectionBullet(i), bs[i], BulletPause)]
    \o (IF Truthy(c) THEN <<TtsSection(SectionCta, c, CtaPause)>> ELSE <<>>)

\* tts_sections of build_tts_text_with_pauses()
BuildTtsSections(h, bs, c) ==
    (IF Truthy(h) THEN <<TtsSection(SectionHook, h, HookPause)>> ELSE <<>>)
    \o [i \in 1..Len(bs) |-> TtsSection(SectionBullet(i - 1), bs[i], BulletPause)]
    \o (IF Truthy(c) THEN <<TtsSection(SectionCta, c, CtaPause)>> ELSE <<>>)

RECURSIVE SumOf(_, _)
SumOf(secs, field) ==
    IF secs = <<>> THEN 0 ELSE Head(secs)[field] + SumOf(Tail(secs), field)

\* estimated_duration: (word_count / wpm) * 60 / speed_setting + pause_time
EstimatedTtsDuration(secs) ==
    RAdd(RDiv(RMul(RDiv(Rat(SumOf(secs, "words")), Rat(BaseWpm)), Rat(MinuteMs)),
              SpeedSetting),
         Rat(SumOf(secs, "pause_after")))

BuildTts ==
    /\ tts_pc = "start"
    /\ estimated_duration' =
           Some(EstimatedTtsDuration(BuildTtsSections(hook, bullets, cta)))
    /\ tts_pc' = "built"
    /\ UNCHANGED <<textVars, schedVars, reportVars, scriptVars, scene_images, duration, timing_file, pc, timingVars,
                   sceneVars, sync_message, sync_status, validatorVars, probe,
                   metadata>>

ProbeResults == {None} \cup {Some(d) : d \in Narrations}

\* generate_audio_with_fallback(): no voice.mp3 (exit(1)), or a voice.mp3
\* that ffprobe can or cannot read
GenerateAudio ==
    /\ tts_pc = "built"
    /\ \/ /\ tts_pc' = "failed"
          /\ UNCHANGED probe
       \/ /\ tts_pc' = "generated"
          /\ probe' \in ProbeResults
    /\ UNCHANGED <<textVars, schedVars, reportVars, scriptVars, scene_images, duration, timing_file, pc, timingVars,
                   sceneVars, sync_message, sync_status, validatorVars,
                   estimated_duration, metadata>>

\* mutant: the durations are left as computed, without the normalisation
SectionTimings_NotNormalised(secs, actual_duration) ==
    LET total_words == SumOf(secs, "words")
        raw == [i \in 1..Len(secs) |->
                   RAdd(RMul(RDiv(Rat(secs[i].words), Rat(total_words)),
                             actual_duration),
                        Rat(secs[i].pause_after))]
        start[i \in 1..Len(secs)] ==
            IF i = 1 THEN Zero ELSE RAdd(start[i - 1], raw[i - 1])
    IN  [i \in 1..Len(secs) |->
            [name |-> secs[i].name, start |-> start[i], duration |-> raw[i],
             end |-> RAdd(start[i], raw[i])]]

\* section_timings of optimize_audio_timing(): word share plus pause, then
\* the normalisation to actual_duration, then the starts and ends recalculated
SectionTimings(secs, actual_duration) ==
    LET total_words == SumOf(secs, "words")
        raw == [i \in 1..Len(secs) |->
                   RAdd(RMul(RDiv(Rat(secs[i].words), Rat(total_words)),
                             actual_duration),
                        Rat(secs[i].pause_after))]
        adjustment_factor == RDiv(actual_duration, RSum(raw))
        scaled == [i \in 1..Len(secs) |-> RMul(raw[i], adjustment_factor)]
        start[i \in 1..Len(secs)] ==
            IF i = 1 THEN Zero ELSE RAdd(start[i - 1], scaled[i - 1])
    IN  [i \in 1..Len(secs) |->
            [name |-> secs[i].name, start |-> start[i], duration |-> scaled[i],
             end |-> RAdd(start[i], scaled[i])]]

\* optimize_audio_timing(): audio_timing.json is written unless ffprobe fails
\* or the word total is zero (both exceptions are caught, None is returned)
OptimizeAudioTiming ==
    /\ tts_pc = "generated"
    /\ LET secs == BuildTtsSections(hook, bullets, cta)
       IN  timing_file' =
               IF probe = None \/ SumOf(secs, "words") = 0
               THEN timing_file
               ELSE TimingDocument(TRUE, SectionTimings(secs, probe[1]))
    /\ tts_pc' = "optimized"
    /\ UNCHANGED <<textVars, schedVars, reportVars, scriptVars, scene_images, duration, pc, timingVars, sceneVars,
                   sync_message, sync_status, validatorVars, probe,
                   estimated_duration, metadata>>

\* save_metadata(): audio_metadata.json
SaveMetadata ==
    /\ tts_pc = "optimized"
    /\ LET dur == IF probe # None THEN probe[1] ELSE estimated_duration[1]
       IN  metadata' = Some([audio_duration |-> dur,
                             estimated_duration |-> estimated_duration[1],
                             within_target |-> WithinAcceptable(dur)])
    /\ tts_pc' = "saved"
    /\ UNCHANGED <<textVars, schedVars, reportVars, scriptVars, scene_images, duration, timing_file, pc, timingVars,
                   sceneVars, sync_message, sync_status, validatorVars, probe,
                   estimated_duration>>

-----------------------------------------------------------------------------
(* create_video.py: text wrapping, adaptive sizing and placement.          *)
(* A text is the list of its words, each word its number of characters;    *)
(* a line is a list of words. The font is modelled by one advance per      *)
(* character of font_size * 0.55 px (the script's own avg_char_width) and  *)
(* by one line height of font_size px; lengths are compared in hundredths  *)
(* of a pixel.                                                             *)

FrameWidth == 1080                    \* w
FrameHeight == 1920                   \* h
SAFE_ZONE_MARGIN == 150
TEXT_MAX_WIDTH == FrameWidth - (2 * SAFE_ZONE_MARGIN)
DefaultFontSize == 70                 \* font_size=70
FontFloor == 36                       \* font_size > 36
FontStep == 5                         \* font_size -= 5
MaxIterations == 10                   \* iterations < 10
AvgCharWidth100 == 55                 \* font_size * 0.55, in hundredths
MinDescender == 40                    \* max(40, ...)
BottomExtra == 200                    \* bottom_safe = SAFE_ZONE_MARGIN + 200
TopExtra == 100                       \* SAFE_ZONE_MARGIN + 100

RECURSIVE SumSeq(_)
SumSeq(s) == IF s = <<>> THEN 0 ELSE Head(s) + SumSeq(Tail(s))

\* len(' '.join(line))
LineChars(line) == IF line = <<>> THEN 0 ELSE SumSeq(line) + (Len(line) - 1)

\* draw.textbbox((0, 0), line, font=pil_font): bbox[2] - bbox[0], in hundredths
LineWidth100(line, size) == LineChars(line) * size * AvgCharWidth100

\* draw.textbbox((0, 0), line, font=pil_font): bbox[3] - bbox[1]
LineHeight(line, size) == IF line = <<>> THEN 0 ELSE size

\* the test of the wrapping loop: measured with the font, or counted in
\* characters against int(max_width / avg_char_width) when the font fails
WrapFits(test_line, size, max_width, loads) ==
    IF loads
    THEN LineWidth100(test_line, size) <= max_width * 100
    ELSE LineChars(test_line) <= (max_width * 100) \div (size * AvgCharWidth100)

\* mutant: a word that overflows an empty line is dropped
RECURSIVE WrapWords_DropsLongWord(_, _, _, _, _, _)
WrapWords_DropsLongWord(words, lines, current_line, size, max_width, loads) ==
    IF words = <<>>
    THEN IF current_line # <<>> THEN Append(lines, current_line) ELSE lines
    ELSE LET word == Head(words)
             test_line == Append(current_line, word)
         IN  IF WrapFits(test_line, size, max_width, loads)
             THEN WrapWords_DropsLongWord(Tail(words), lines, test_line, size,
                                          max_width, loads)
             ELSE IF current_line # <<>>
                  THEN WrapWords_DropsLongWord(Tail(words),
                                               Append(lines, current_line),
                                               <<word>>, size, max_width, loads)
                  ELSE WrapWords_DropsLongWord(Tail(words), lines, <<>>, size,
                                               max_width, loads)

\* the loop "for word in words" of smart_text_wrap and the flush after it
RECURSIVE WrapWords(_, _, _, _, _, _)
WrapWords(words, lines, current_line, size, max_width, loads) ==
    IF words = <<>>
    THEN IF current_line # <<>> THEN Append(lines, current_line) ELSE lines
    ELSE LET word == Head(words)
             test_line == Append(current_line, word)
         IN  IF WrapFits(test_line, size, max_width, loads)
             THEN WrapWords(Tail(words), lines, test_line, size, max_width, loads)
             ELSE WrapWords(Tail(words),
                            IF current_line # <<>>
                            THEN Append(lines, current_line) ELSE lines,
                            <<word>>, size, max_width, loads)

\* smart_text_wrap: the lines of the returned string, which ends each line
\* with a newline
smart_text_wrap(words, size, max_width, loads) ==
    WrapWords(words, <<>>, <<>>, size, max_width, loads)

\* wrapped.split('\n'): the lines and the empty string after the last newline
SplitLines(lines) == Append(lines, <<>>)

RECURSIVE TotalHeight(_, _)
TotalHeight(lines, size) ==
    IF lines = <<>> THEN 0
    ELSE LineHeight(Head(lines), size) + TotalHeight(Tail(lines), size)

RECURSIVE MaxWidth100(_, _)
MaxWidth100(lines, size) ==
    IF lines = <<>> THEN 0
    ELSE LET first == LineWidth100(Head(lines), size)
             rest == MaxWidth100(Tail(lines), size)
         IN  IF first > rest THEN first ELSE rest

\* max_height = h * 0.3
MaxHeight == (FrameHeight * 3) \div 10

\* total_h > max_height or max_w > max_width
TooLarge(lines, size, max_width) ==
    \/ TotalHeight(SplitLines(lines), size) > MaxHeight
    \/ MaxWidth100(SplitLines(lines), size) > max_width * 100

\* create_text_with_effects up to its loop; a font that does not load
\* raises in the try block and the first wrapping is returned at once
WrapText ==
    /\ text_pc = "start"
    /\ wrapped' = smart_text_wrap(scene_text, font_size, TEXT_MAX_WIDTH, font_loads)
    /\ text_pc' = IF font_loads THEN "sizing" ELSE "sized"
    /\ UNCHANGED <<scene_text, font_loads, position_y, font_size, iterations, text_h,
                   pos_y>>
    /\ UNCHANGED <<schedVars, reportVars, scriptVars, scene_images, duration,
                   timing_file, pc, timingVars, sceneVars, sync_message,
                   sync_status, validatorVars, ttsVars>>

\* mutant: the loop goes on below the floor of 36
ShrinkFont_NoFloor ==
    /\ text_pc = "sizing"
    /\ TooLarge(wrapped, font_size, TEXT_MAX_WIDTH)
    /\ iterations < MaxIterations
    /\ font_size' = font_size - FontStep
    /\ wrapped' = smart_text_wrap(scene_text, font_size', TEXT_MAX_WIDTH, font_loads)
    /\ iterations' = iterations + 1
    /\ UNCHANGED <<scene_text, font_loads, position_y, text_h, pos_y, text_pc>>
    /\ UNCHANGED <<schedVars, reportVars, scriptVars, scene_images, duration,
                   timing_file, pc, timingVars, sceneVars, sync_message,
                   sync_status, validatorVars, ttsVars>>

\* one iteration of the while loop of create_text_with_effects
ShrinkFont ==
    /\ text_pc = "sizing"
    /\ TooLarge(wrapped, font_size, TEXT_MAX_WIDTH)
    /\ font_size > FontFloor
    /\ iterations < MaxIterations
    /\ font_size' = font_size - FontStep
    /\ wrapped' = smart_text_wrap(scene_text, font_size', TEXT_MAX_WIDTH, font_loads)
    /\ iterations' = iterations + 1
    /\ UNCHANGED <<scene_text, font_loads, position_y, text_h, pos_y, text_pc>>
    /\ UNCHANGED <<schedVars, reportVars, scriptVars, scene_images, duration,
                   timing_file, pc, timingVars, sceneVars, sync_message,
                   sync_status, validatorVars, ttsVars>>

\* the while condition is false: return wrapped, font_size
ReturnText ==
    /\ text_pc = "sizing"
    /\ ~ (/\ TooLarge(wrapped, font_size, TEXT_MAX_WIDTH)
          /\ font_size > FontFloor
          /\ iterations < MaxIterations)
    /\ text_pc' = "sized"
    /\ UNCHANGED <<scene_text, font_loads, position_y, font_size, wrapped, iterations,
                   text_h, pos_y>>
    /\ UNCHANGED <<schedVars, reportVars, scriptVars, scene_images, duration,
                   timing_file, pc, timingVars, sceneVars, sync_message,
                   sync_status, validatorVars, ttsVars>>

LabelWords == 3                       \* len(text.split()) <= 3
LabelStroke == 3                      \* stroke = 3 if ... else 5
CaptionStroke == 5

\* stroke = 3 if len(text.split()) <= 3 else 5
Stroke(words) == IF Len(words) <= LabelWords THEN LabelStroke ELSE CaptionStroke

\* the heights TextClip may report for the rendered lines (text_clip.h): the
\* height of the lines, with or without the stroke above and below
RenderedHeights(words, lines, size) ==
    {TotalHeight(lines, size), TotalHeight(lines, size) + (2 * Stroke(words))}

\* position_y: one of the three anchors, or <<"y", n>> for the number n
AnchorTop == <<"top">>
AnchorCenter == <<"center">>
AnchorBottom == <<"bottom">>
PositionAnchors == {AnchorTop, AnchorCenter, AnchorBottom}
NumericPositions == {<<"y", n>> : n \in {0, 800, 1900}}

\* descender = max(40, int(font_size * 0.6))
Descender(size) ==
    LET scaled == (size * 6) \div 10
    IN  IF scaled > MinDescender THEN scaled ELSE MinDescender

\* create_scene: pos_y by anchor, then clamped
PosY(anchor, height, size) ==
    LET descender == Descender(size)
        bottom_safe == SAFE_ZONE_MARGIN + BottomExtra
        upper == FrameHeight - height - bottom_safe - descender
        raw == IF anchor = AnchorCenter THEN (FrameHeight - height) \div 2
               ELSE IF anchor = AnchorTop THEN SAFE_ZONE_MARGIN + TopExtra
               ELSE IF anchor = AnchorBottom THEN upper
               ELSE anchor[2]
    IN  IMax(SAFE_ZONE_MARGIN + TopExtra, IMin(raw, upper))

\* create_scene: the TextClip is rendered and placed
PlaceText ==
    /\ text_pc = "sized"
    /\ \E height \in RenderedHeights(scene_text, wrapped, font_size) :
          /\ text_h' = height
          /\ pos_y' = PosY(position_y, height, font_size)
    /\ text_pc' = "placed"
    /\ UNCHANGED <<scene_text, font_loads, position_y, font_size, wrapped, iterations>>
    /\ UNCHANGED <<schedVars, reportVars, scriptVars, scene_images, duration,
                   timing_file, pc, timingVars, sceneVars, sync_message,
                   sync_status, validatorVars, ttsVars>>

-----------------------------------------------------------------------------
(* optimal_scheduler.py: should_post_now() and get_next_optimal_slot().    *)
(* The current time is a weekday (0 is Monday), an hour and a minute.      *)

\* OPTIMAL_SCHEDULE, indexed by weekday + 1
OPTIMAL_SCHEDULE ==
    << [times |-> <<5, 12, 23>>,
        content_types |-> <<"morning_fire", "midday_boost",
                            "late_night_accountability">>,
        priority |-> <<"highest", "medium", "extreme">>],
       [times |-> <<6, 14, 22>>,
        content_types |-> <<"discipline", "afternoon_push", "evening_reflection">>,
        priority |-> <<"highest", "medium", "high">>],
       [times |-> <<5, 18, 23>>,
        content_types |-> <<"morning_fire", "evening_fire", "late_scrollers">>,
        priority |-> <<"highest", "high", "extreme">>],
       [times |-> <<2, 6, 13, 22>>,
        content_types |-> <<"late_night_truth", "discipline", "midday_fire",
                            "night_warriors">>,
        priority |-> <<"extreme", "highest", "medium", "high">>],
       [times |-> <<5, 19, 23>>,
        content_types |-> <<"morning_fire", "weekend_prep", "friday_reflection">>,
        priority |-> <<"highest", "high", "high">>],
       [times |-> <<7, 14, 22>>,
        content_types |-> <<"weekend_grind", "afternoon_inspiration", "reflection">>,
        priority |-> <<"high", "medium", "high">>],
       [times |-> <<6, 8, 21, 1>>,
        content_types |-> <<"early_riser", "sunday_motivation", "week_prep",
                            "sunday_crisis">>,
        priority |-> <<"highest", "high", "high", "extreme">>] >>

Weekdays == 0..6
DaysAhead == 7                        \* range(7)
MinutesPerDay == 24 * 60

ScheduleOf(day) == OPTIMAL_SCHEDULE[day + 1]

\* abs(hour - optimal_hour) <= 0.5, both integers
HourMatches(current_hour, optimal_hour) == 2 * IAbs(current_hour - optimal_hour) <= 1

Decision(post, priority, content_type) ==
    [should_post |-> post, priority |-> priority, content_type |-> content_type]

\* should_post_now(): the first slot of the weekday whose hour matches
ShouldPost(ignore, day, current_hour) ==
    IF ignore
    THEN Decision(TRUE, "manual", "user_triggered")
    ELSE LET schedule == ScheduleOf(day)
             hits == {idx \in 1..Len(schedule.times) :
                         HourMatches(current_hour, schedule.times[idx])}
         IN  IF hits = {}
             THEN Decision(FALSE, "low", "off_schedule")
             ELSE LET idx == CHOOSE i \in hits : \A j \in hits : i <= j
                  IN  Decision(TRUE, schedule.priority[idx],
                               schedule.content_types[idx])

ShouldPostNow ==
    /\ post_decision = None
    /\ post_decision' = Some(ShouldPost(ignore_schedule, weekday, hour))
    /\ UNCHANGED <<weekday, hour, minute, ignore_schedule, next_slot>>
    /\ UNCHANGED <<textVars, reportVars, scriptVars, scene_images, duration,
                   timing_file, pc, timingVars, sceneVars, sync_message,
                   sync_status, validatorVars, ttsVars>>

\* minutes from the start of the current day to the slot idx of the day that
\* is day_offset days ahead (slot_time has minute, second, microsecond 0)
SlotMinutes(day, day_offset, idx) ==
    (day_offset * MinutesPerDay)
        + (ScheduleOf((day + day_offset) % 7).times[idx] * 60)

NoSlot ==
    [found |-> FALSE, day_offset |-> 0, weekday |-> 0, hour |-> 0,
     content_type |-> "", priority |-> ""]

\* get_next_optimal_slot(): days in order, the slots of a day in listed order,
\* the first with slot_time > current; None when there is none
NextOptimalSlot(day, current_hour, current_minute) ==
    LET now == (current_hour * 60) + current_minute
        hits == {p \in (0..(DaysAhead - 1)) \X (1..4) :
                    /\ p[2] <= Len(ScheduleOf((day + p[1]) % 7).times)
                    /\ SlotMinutes(day, p[1], p[2]) > now}
    IN  IF hits = {}
        THEN NoSlot
        ELSE LET first == CHOOSE p \in hits :
                              \A q \in hits :
                                  p[1] < q[1] \/ (p[1] = q[1] /\ p[2] <= q[2])
                 schedule == ScheduleOf((day + first[1]) % 7)
             IN  [found |-> TRUE, day_offset |-> first[1],
                  weekday |-> (day + first[1]) % 7,
                  hour |-> schedule.times[first[2]],
                  content_type |-> schedule.content_types[first[2]],
                  priority |-> schedule.priority[first[2]]]

GetNextOptimalSlot ==
    /\ next_slot = None
    /\ next_slot' = Some(NextOptimalSlot(weekday, hour, minute))
    /\ UNCHANGED <<weekday, hour, minute, ignore_schedule, post_decision>>
    /\ UNCHANGED <<textVars, reportVars, scriptVars, scene_images, duration,
                   timing_file, pc, timingVars, sceneVars, sync_message,
                   sync_status, validatorVars, ttsVars>>

-----------------------------------------------------------------------------
(* Inputs and specifications.                                              *)

HookTexts   == {EmptyText, 3}
BulletTexts == {EmptyText, BlankText, 10}
CtaTexts    == {EmptyText, 2}
BulletLists == UNION {[1..n -> BulletTexts] : n \in 0..MaxBullets}

MeasuredValues == {0, 3000}

\* the section names of a script with n bullets, in script order
NameOrder(n) ==
    <<SectionHook>> \o [i \in 1..n |-> SectionBullet(i - 1)] \o <<SectionCta>>

RECURSIVE EntriesFrom(_, _, _)
EntriesFrom(names, m, i) ==
    IF i > Len(names) THEN <<>>
    ELSE (IF m[i] = None THEN <<>>
          ELSE <<[name |-> names[i], duration |-> m[i][1]]>>)
         \o EntriesFrom(names, m, i + 1)

\* "sections" lists: each name of the script absent or with a measured value
SectionLists(n) ==
    {EntriesFrom(NameOrder(n), m, 1) :
        m \in [1..(n + 2) -> {None} \cup {Some(Rat(v)) : v \in MeasuredValues}]}

UniformLists(n) ==
    {EntriesFrom(NameOrder(n), [i \in 1..(n + 2) |-> Some(Rat(v))], 1) :
        v \in MeasuredValues}

\* every name measured, hook at 3.0 s and the others at 0, listed from cta to hook
Reverse(seq) == [i \in 1..Len(seq) |-> seq[Len(seq) + 1 - i]]

ReversedLists(n) ==
    {Reverse(EntriesFrom(NameOrder(n),
                         [i \in 1..(n + 2) |->
                             Some(Rat(IF i = 1 THEN 3000 ELSE 0))], 1))}

TimingFiles(n) ==
    {AbsentFile, UnparsableFile}
    \cup {TimingDocument(TRUE, secs) : secs \in SectionLists(n)}
    \cup {TimingDocument(TRUE, secs) : secs \in ReversedLists(n)}
    \cup {TimingDocument(FALSE, secs) : secs \in UniformLists(n)}

\* nothing reconciled, built or checked yet
TimelineUnset ==
    /\ duration = Zero
    /\ hook_dur = Zero
    /\ bullet_durs = <<>>
    /\ cta_dur = Zero
    /\ total_calculated = None
    /\ clips = <<>>
    /\ current_time = Zero
    /\ sync_message = Unset
    /\ sync_status = Unset

ValidatorIdle ==
    /\ strict_mode = FALSE
    /\ video_duration = Zero
    /\ audio_exists = FALSE
    /\ audio_duration = None
    /\ duration_status = Unset
    /\ audio_sync = Unset
    /\ warnings = <<>>
    /\ errors = <<>>

TtsIdle ==
    /\ tts_pc = "idle"
    /\ probe = None
    /\ estimated_duration = None
    /\ metadata = None

TextIdle ==
    /\ scene_text = <<>>
    /\ font_loads = TRUE
    /\ position_y = AnchorCenter
    /\ font_size = DefaultFontSize
    /\ wrapped = <<>>
    /\ iterations = 0
    /\ text_h = 0
    /\ pos_y = 0
    /\ text_pc = "idle"

SchedIdle ==
    /\ weekday = 0
    /\ hour = 0
    /\ minute = 0
    /\ ignore_schedule = FALSE
    /\ post_decision = None
    /\ next_slot = None

ReportIdle ==
    /\ video_exists = TRUE
    /\ video_probe = None
    /\ within_acceptable = None
    /\ overall_status = "UNKNOWN"
    /\ is_valid = None
    /\ within_target = Unset
    /\ validate_pc = "idle"

OthersIdle == TextIdle /\ SchedIdle /\ ReportIdle

AllGenerated(n) == [k \in 1..(n + 2) |-> GeneratedImage]

\* create_video.py from the validation of the generated images on
Init ==
    /\ hook \in HookTexts
    /\ bullets \in BulletLists
    /\ cta \in CtaTexts
    /\ scene_images = AllGenerated(Len(bullets))
    /\ timing_file \in TimingFiles(Len(bullets))
    /\ pc = "start"
    /\ TimelineUnset
    /\ ValidatorIdle
    /\ TtsIdle
    /\ OthersIdle

Next ==
    \/ ValidateImages
    \/ LoadAudio
    \/ Reconcile
    \/ BuildScenes
    \/ SyncCheck
    \/ WriteVideo

Spec == Init /\ [][Next]_vars

\* create_video.py over the outcomes of the image generation (which draws on
\* random seeds and the network), without metadata and with a measured list
SceneImageLists(n) == [1..(n + 2) -> {GeneratedImage, None}]

ImageTimingFiles(n) ==
    {AbsentFile} \cup {TimingDocument(TRUE, secs) : secs \in ReversedLists(n)}

InitImages ==
    /\ hook \in HookTexts
    /\ bullets \in BulletLists
    /\ cta \in CtaTexts
    /\ scene_images \in SceneImageLists(Len(bullets))
    /\ timing_file \in ImageTimingFiles(Len(bullets))
    /\ pc = "start"
    /\ TimelineUnset
    /\ ValidatorIdle
    /\ TtsIdle
    /\ OthersIdle

SpecImages == InitImages /\ [][Next]_vars

\* The sync classifiers over drawn narration and realized durations.
SyncNarrations == {Rat(9200), Rat(10000), Rat(12000)}
SyncOffsets ==
    {Rat(-600), Rat(-500), Rat(-499), Rat(-50), <<-99, 2>>, Rat(-49), Rat(-20),
     Rat(0), Rat(20), Rat(49), <<99, 2>>, Rat(50), Rat(499), <<999, 2>>, Rat(500),
     Rat(600)}

InitSync ==
    /\ hook = EmptyText
    /\ bullets = <<>>
    /\ cta = 2
    /\ scene_images = AllGenerated(0)
    /\ duration \in SyncNarrations
    /\ timing_file = AbsentFile
    /\ pc = "built"
    /\ hook_dur = Zero
    /\ bullet_durs = <<>>
    /\ total_calculated = None
    /\ current_time \in {RAdd(duration, off) : off \in SyncOffsets}
    /\ cta_dur = current_time
    /\ clips = CreateScene(SectionCta, scene_images[2], cta, current_time, Zero,
                           "steel_gray")
    /\ sync_message = Unset
    /\ sync_status = Unset
    /\ strict_mode \in BOOLEAN
    /\ video_duration = current_time
    /\ audio_exists \in BOOLEAN
    /\ audio_duration \in {None, Some(duration)}
    /\ duration_status = Unset
    /\ audio_sync = Unset
    /\ warnings = <<>>
    /\ errors = <<>>
    /\ TtsIdle
    /\ TextIdle
    /\ SchedIdle
    /\ video_exists = TRUE
    /\ video_probe = Some(video_duration)
    /\ within_acceptable = None
    /\ overall_status = "UNKNOWN"
    /\ is_valid = None
    /\ within_target = Unset
    /\ validate_pc = "measured"

NextSync == SyncCheck \/ WriteVideo \/ ValidateRange \/ ValidateAudioSync

SpecSync == InitSync /\ [][NextSync]_vars

\* generate_tts.py over the scripts and the outcomes of the synthesis
InitTts ==
    /\ hook \in HookTexts
    /\ bullets \in BulletLists
    /\ cta \in CtaTexts
    /\ scene_images = AllGenerated(Len(bullets))
    /\ timing_file = AbsentFile
    /\ pc = "start"
    /\ TimelineUnset
    /\ ValidatorIdle
    /\ tts_pc = "start"
    /\ probe = None
    /\ estimated_duration = None
    /\ metadata = None
    /\ OthersIdle

NextTts == BuildTts \/ GenerateAudio \/ OptimizeAudioTiming \/ SaveMetadata

SpecTts == InitTts /\ [][NextTts]_vars

\* generate_tts.py and then create_video.py on the same script.json
StartVideo ==
    /\ tts_pc = "saved"
    /\ ValidateImages

\* create_video.py loads the voice.mp3 generate_tts.py wrote: its duration is
\* the one ffprobe measured, or any when ffprobe could not read the file
LoadNarration ==
    /\ pc = "validated"
    /\ \E d \in Narrations :
          /\ probe # None => d = probe[1]
          /\ AudioLoaded(d)
    /\ UNCHANGED <<textVars, schedVars, reportVars, scriptVars, scene_images,
                   timing_file, timingVars, sceneVars, sync_message, sync_status,
                   validatorVars, ttsVars>>

NextPipeline ==
    \/ BuildTts
    \/ GenerateAudio
    \/ OptimizeAudioTiming
    \/ SaveMetadata
    \/ StartVideo
    \/ LoadNarration
    \/ Reconcile
    \/ BuildScenes
    \/ SyncCheck
    \/ WriteVideo

SpecPipeline == InitTts /\ [][NextPipeline]_vars

\* validate_duration.py over the videos it may find
VideoDurations ==
    {Rat(8000), Rat(8999), Rat(9000), Rat(9500), Rat(10000), Rat(12000),
     Rat(15000), Rat(15500), Rat(16000), Rat(16001), Rat(20000)}

InitValidate ==
    /\ hook = EmptyText
    /\ bullets = <<>>
    /\ cta = EmptyText
    /\ scene_images = AllGenerated(0)
    /\ timing_file = AbsentFile
    /\ pc = "idle"
    /\ TimelineUnset
    /\ TtsIdle
    /\ TextIdle
    /\ SchedIdle
    /\ strict_mode \in BOOLEAN
    /\ video_exists \in BOOLEAN
    /\ video_probe \in {None} \cup {Some(d) : d \in VideoDurations}
    /\ video_duration = Zero
    /\ audio_exists \in BOOLEAN
    /\ audio_duration \in {None, Some(Rat(12000))}
    /\ duration_status = Unset
    /\ audio_sync = Unset
    /\ warnings = <<>>
    /\ errors = <<>>
    /\ within_acceptable = None
    /\ overall_status = "UNKNOWN"
    /\ is_valid = None
    /\ within_target = Unset
    /\ validate_pc = "start"

NextValidate ==
    \/ CheckVideo
    \/ ValidateRange
    \/ ValidateAudioSync
    \/ Summarize
    \/ WriteOutput

SpecValidate == InitValidate /\ [][NextValidate]_vars

\* optimal_scheduler.py over the times of the week
Minutes == {0, 15, 30, 31, 45}

InitSched ==
    /\ hook = EmptyText
    /\ bullets = <<>>
    /\ cta = EmptyText
    /\ scene_images = AllGenerated(0)
    /\ timing_file = AbsentFile
    /\ pc = "idle"
    /\ TimelineUnset
    /\ ValidatorIdle
    /\ TtsIdle
    /\ TextIdle
    /\ ReportIdle
    /\ weekday \in Weekdays
    /\ hour \in 0..23
    /\ minute \in Minutes
    /\ ignore_schedule \in BOOLEAN
    /\ post_decision = None
    /\ next_slot = None

NextSched == ShouldPostNow \/ GetNextOptimalSlot

SpecSched == InitSched /\ [][NextSched]_vars

\* create_scene's text branch over texts, anchors and font availability
MaxWords == 3
WordLengths == {4, 20, 25, 45}
LongTexts == {[k \in 1..n |-> 20] : n \in {9, 17, 38}}
Texts ==
    UNION {[1..n -> WordLengths] : n \in 0..MaxWords} \cup LongTexts

InitText ==
    /\ hook = EmptyText
    /\ bullets = <<>>
    /\ cta = EmptyText
    /\ scene_images = AllGenerated(0)
    /\ timing_file = AbsentFile
    /\ pc = "idle"
    /\ TimelineUnset
    /\ ValidatorIdle
    /\ TtsIdle
    /\ SchedIdle
    /\ ReportIdle
    /\ scene_text \in Texts
    /\ font_loads \in BOOLEAN
    /\ position_y \in PositionAnchors \cup NumericPositions
    /\ font_size = DefaultFontSize
    /\ wrapped = <<>>
    /\ iterations = 0
    /\ text_h = 0
    /\ pos_y = 0
    /\ text_pc = "start"

NextText == WrapText \/ ShrinkFont \/ ReturnText \/ PlaceText

SpecText == InitText /\ [][NextText]_vars

-----------------------------------------------------------------------------
(* Vocabulary of the properties.                                           *)

Timed == pc \in {"timed", "built", "checked", "done", "compose_failed"}
Built == pc \in {"built", "checked", "done", "compose_failed"}

\* the reconciliation has run (to its end or into its ZeroDivisionError)
Reconciled == Timed \/ pc = "crashed"

\* the scheduled scenes: one background or placeholder clip each
IsScene(c) == c.kind # "text"
Scenes == SelectSeq(clips, IsScene)
SceneDurations == [i \in 1..Len(Scenes) |-> Scenes[i].duration]

\* the sections create_video schedules, in order
ScheduledNames ==
    (IF Truthy(hook) THEN <<SectionHook>> ELSE <<>>)
    \o [i \in 1..Len(bullets) |-> SectionBullet(i - 1)]
    \o (IF Truthy(cta) THEN <<SectionCta>> ELSE <<>>)

\* the durations the reconciler left for the scheduled sections, in order
ScheduledDurations ==
    (IF Truthy(hook) THEN <<hook_dur>> ELSE <<>>)
    \o bullet_durs
    \o (IF Truthy(cta) THEN <<cta_dur>> ELSE <<>>)

MeasuredSet(name) ==
    {timing_file.sections[i].duration :
        i \in {j \in 1..Len(timing_file.sections) :
                  timing_file.sections[j].name = name}}
HasMeasured(name) == MeasuredSet(name) # {}
MeasuredOf(name) == CHOOSE v \in MeasuredSet(name) : TRUE

AllMeasured == \A i \in 1..Len(ScheduledNames) : HasMeasured(ScheduledNames[i])
MeasuredDurations ==
    [i \in 1..Len(ScheduledNames) |-> MeasuredOf(ScheduledNames[i])]

\* the durations the optimized branch resolves before any adjustment
RawDurations ==
    LET secs == timing_file.sections
    IN  (IF Truthy(hook)
         THEN <<ResolveHook(secs, hook, bullets, cta, duration)>> ELSE <<>>)
        \o ResolveBullets(secs, hook, bullets, cta, duration)
        \o (IF Truthy(cta)
            THEN <<ResolveCta(secs, hook, bullets, cta, duration)>> ELSE <<>>)

-----------------------------------------------------------------------------
(* C1: the durations of the scheduled scenes sum to the narration duration *)
(* within 1 ms, for every script and every timing-metadata input.          *)
C1_SumEqualsNarration ==
    (Built /\ Len(ScheduledNames) > 0) =>
        RLe(RAbs(RSub(RSum(SceneDurations), duration)), Rat(1))

(* C2: the first scheduled scene starts at 0 and every scheduled scene     *)
(* starts exactly where the previous one ends, also with an empty hook or  *)
(* cta and with blank bullets rendered as placeholders.                    *)
C2_GapFree ==
    Built =>
        /\ Len(Scenes) > 0 => Scenes[1].start = Zero
        /\ \A i \in 1..(Len(Scenes) - 1) :
               Scenes[i + 1].start = RAdd(Scenes[i].start, Scenes[i].duration)
        /\ Len(Scenes) = Len(ScheduledNames)
        /\ \A i \in 1..Len(Scenes) : Scenes[i].section = ScheduledNames[i]

C2_Witness ==
    /\ pc = "done"
    /\ hook = EmptyText
    /\ Len(Scenes) = 2
    /\ Scenes[1].kind = "placeholder"
    /\ RLt(Zero, Scenes[1].duration)
    /\ Scenes[2].kind = "background"
    /\ Scenes[2].start = Scenes[1].duration

(* C3: with optimized metadata holding a measured duration for every       *)
(* section of the script, those durations summing to the narration         *)
(* duration, the reconciler leaves exactly the measured values.            *)
C3_Pre ==
    /\ UsesOptimized(timing_file)
    /\ AllMeasured
    /\ RSum(MeasuredDurations) = duration

C3_MeasuredUnchanged ==
    (Reconciled /\ C3_Pre) =>
        /\ pc # "crashed"
        /\ ScheduledDurations = MeasuredDurations
        /\ Built => SceneDurations = MeasuredDurations

C3_Witness ==
    /\ pc = "done"
    /\ C3_Pre
    /\ Truthy(hook)
    /\ Len(bullets) >= 1
    /\ Len(Scenes) >= 2

(* C4: on the optimized path, when the raw total differs from the          *)
(* narration duration by more than 0.5 s, every section duration is        *)
(* multiplied by narration_duration / raw_total, so that the durations     *)
(* sum to the narration duration and keep their ratios.                    *)
C4_UniformScaling ==
    (Reconciled /\ UsesOptimized(timing_file) /\ Len(ScheduledNames) > 0
        /\ NeedsAdjustment(RSum(RawDurations), duration)) =>
        /\ RSum(RawDurations) # Zero
        /\ pc # "crashed"
        /\ \A i \in 1..Len(ScheduledDurations) :
               ScheduledDurations[i] =
                   RMul(RawDurations[i], RDiv(duration, RSum(RawDurations)))
        /\ RSum(ScheduledDurations) = duration

\* the part of C4 the code does satisfy: a non-zero raw total
C4_ScalingOfNonzeroTotal ==
    (Reconciled /\ UsesOptimized(timing_file)
        /\ NeedsAdjustment(RSum(RawDurations), duration)
        /\ RSum(RawDurations) # Zero) =>
        /\ pc # "crashed"
        /\ \A i \in 1..Len(ScheduledDurations) :
               ScheduledDurations[i] =
                   RMul(RawDurations[i], RDiv(duration, RSum(RawDurations)))
        /\ RSum(ScheduledDurations) = duration

(* C5: whenever the raw total of the section durations is 0, on either     *)
(* path, nothing is divided by zero and each of the N sections gets the    *)
(* slice narration_duration / N, the scheduled sum being the narration     *)
(* duration.                                                               *)
RawTotalIsZero ==
    IF UsesOptimized(timing_file)
    THEN RSum(RawDurations) = Zero
    ELSE TotalWords(AllText(hook, bullets, cta)) = 0

C5_EqualSlices ==
    (Reconciled /\ RawTotalIsZero /\ Len(ScheduledNames) > 0) =>
        /\ pc # "crashed"
        /\ \A i \in 1..Len(ScheduledDurations) :
               ScheduledDurations[i] = RDiv(duration, Rat(Len(ScheduledNames)))
        /\ Built => RSum(SceneDurations) = duration

(* C6: the estimator's durations for the sections of a script sum exactly  *)
(* to the target duration (3/10/2 words at 12.0 s give 2.4 s, 8.0 s and    *)
(* 1.6 s): estimate_duration_fallback where the optimized metadata names   *)
(* no section, the words-per-minute estimate where there is no metadata.   *)
NoneMeasured == \A i \in 1..Len(ScheduledNames) : ~HasMeasured(ScheduledNames[i])

\* every text of the script has words (the wordless cases are those of C5, C7)
AllHaveWords ==
    /\ Words(hook) > 0
    /\ Words(cta) > 0
    /\ \A i \in 1..Len(bullets) : Words(bullets[i]) > 0

C6_EstimatesSumToTarget ==
    (Reconciled /\ AllHaveWords) =>
        /\ (UsesOptimized(timing_file) /\ NoneMeasured) =>
               total_calculated = Some(duration)
        /\ (~UsesOptimized(timing_file) /\ Timed) =>
               RSum(ScheduledDurations) = duration

\* the example of C6 on the fallback estimator
C6_Example ==
    (Reconciled /\ UsesOptimized(timing_file) /\ NoneMeasured
        /\ hook = 3 /\ bullets = <<10>> /\ cta = 2 /\ duration = Rat(12000)) =>
        ScheduledDurations = <<Rat(2400), Rat(8000), Rat(1600)>>

(* C7: a section whose text is empty receives duration 0 from the          *)
(* estimator on every path and occupies a zero-length slot.                *)
C7_EmptySectionZero ==
    Timed =>
        \A i \in 1..Len(bullets) :
            (bullets[i] = EmptyText /\
                ~(UsesOptimized(timing_file) /\ HasMeasured(SectionBullet(i - 1))))
            => bullet_durs[i] = Zero

(* C8: no clip is added to the clip list for a timeline entry whose        *)
(* duration is <= 0.                                                       *)
C8_NoClipForZeroDuration ==
    \A i \in 1..Len(clips) : RLt(Zero, clips[i].duration)

(* C9: the sync classification is a total function of the drift: below     *)
(* 50 ms PERFECT, from 50 ms to below 500 ms EXCELLENT, from 500 ms on     *)
(* the degraded class; create_video and validate_duration agree on every   *)
(* drift value.                                                            *)
Drift == RAbs(RSub(current_time, duration))

ClassOfDrift(d) ==
    IF RLt(d, Rat(50)) THEN "PERFECT"
    ELSE IF RLt(d, Rat(500)) THEN "EXCELLENT"
    ELSE "DEGRADED"

ClassOf(label) ==
    CASE label \in {"NEAR-PERFECT SYNC", "NEAR-PERFECT", "PERFECT"} -> "PERFECT"
      [] label \in {"Excellent sync", "EXCELLENT"} -> "EXCELLENT"
      [] label \in {"Sync drift detected", "GOOD", "ACCEPTABLE"} -> "DEGRADED"
      [] OTHER -> "none"

AudioReadable == audio_exists /\ audio_duration # None

C9_SyncClassification ==
    /\ sync_message # Unset => ClassOf(sync_message) = ClassOfDrift(Drift)
    /\ sync_status # Unset => ClassOf(sync_status) = ClassOfDrift(Drift)
    /\ (audio_sync # Unset /\ AudioReadable) =>
           ClassOf(audio_sync) = ClassOfDrift(Drift)
    /\ (sync_message # Unset /\ audio_sync # Unset /\ AudioReadable) =>
           ClassOf(sync_message) = ClassOf(audio_sync)

C9_Witness ==
    /\ Drift = Rat(500)
    /\ sync_message = "Sync drift detected"
    /\ sync_status = "GOOD"
    /\ audio_sync = "ACCEPTABLE"

(* C10: with a narration of 10.0 s, a realized sum of 10.02 s is           *)
(* classified EXCELLENT and a realized sum of 10.6 s DEGRADED.             *)
ScenarioC(realized, class) ==
    (duration = Rat(10000) /\ current_time = Rat(realized)) =>
        /\ sync_message # Unset => ClassOf(sync_message) = class
        /\ sync_status # Unset => ClassOf(sync_status) = class
        /\ (audio_sync # Unset /\ AudioReadable) => ClassOf(audio_sync) = class

C10_ScenarioC ==
    /\ ScenarioC(10020, "EXCELLENT")
    /\ ScenarioC(10600, "DEGRADED")

(* C10 amended: with a narration of 10.0 s, a realized sum of 10.02 s      *)
(* (drift 20 ms) is classified PERFECT and a realized sum of 10.6 s        *)
(* DEGRADED.                                                               *)
C10_ScenarioCAmended ==
    /\ ScenarioC(10020, "PERFECT")
    /\ ScenarioC(10600, "DEGRADED")

C10_Witness ==
    /\ duration = Rat(10000)
    /\ current_time = Rat(10020)
    /\ sync_message = "NEAR-PERFECT SYNC"
    /\ sync_status = "NEAR-PERFECT"
    /\ audio_sync = "PERFECT"

(* C11: the sync check changes no scene start or duration and no section   *)
(* duration (nothing is reconciled again); after a degraded classification *)
(* (drift >= 500 ms) create_video goes on to compose and write the video;  *)
(* validate_duration's sync check adds the drift to the warnings only and  *)
(* leaves the errors as they were, in strict mode as well.                 *)
DriftDetected == sync_message = "Sync drift detected"

C11_SyncCheckObservational ==
    [][/\ Built => UNCHANGED <<timingVars, sceneVars, duration>>
       /\ (pc = "checked" /\ DriftDetected /\ clips # <<>> /\ pc' # pc) =>
              (pc' = "done" /\ sync_status' = "GOOD")
       /\ (audio_sync = Unset /\ audio_sync' # Unset) =>
              /\ errors' = errors
              /\ warnings' = IF audio_sync' = "ACCEPTABLE"
                             THEN Append(warnings, "drift exceeds 500ms")
                             ELSE warnings]_vars

C11_Witness ==
    /\ pc = "done"
    /\ DriftDetected
    /\ clips # <<>>
    /\ strict_mode
    /\ audio_sync = "ACCEPTABLE"
    /\ errors # <<>>
    /\ warnings = <<"drift exceeds 500ms">>

(* C12: when the narration audio is missing or unreadable the run fails    *)
(* and no made-up duration stands in for the audio's: create_video raises  *)
(* before any timeline exists and writes no video, and generate_tts        *)
(* records as audio duration only a duration measured on the audio file.   *)
C12_NoFabricatedDuration ==
    /\ pc = "no_audio" =>
           (TimelineUnset /\ clips = <<>> /\ sync_status = Unset)
    /\ metadata # None =>
           (probe # None /\ metadata[1].audio_duration = probe[1])

\* the part of C12 on create_video.py, which the code satisfies
C12_CreateVideoRaises ==
    pc = "no_audio" => (TimelineUnset /\ clips = <<>> /\ sync_status = Unset)

\* generate_tts.py went on to its end with an audio file ffprobe cannot read
C12_UnreadableAudioAccepted ==
    ~(tts_pc = "saved" /\ probe = None
        /\ metadata[1].audio_duration = estimated_duration[1])

(* C13: a script with zero sections (empty hook, no bullets, empty cta) is *)
(* rejected at once: no duration is computed for it, no scene is composed  *)
(* and no video is written.                                                *)
ZeroSections == ~Truthy(hook) /\ bullets = <<>> /\ ~Truthy(cta)

C13_ZeroSectionsRejected ==
    ZeroSections =>
        /\ ~Reconciled
        /\ hook_dur = Zero /\ cta_dur = Zero /\ total_calculated = None
        /\ pc # "done"

\* with zero sections the run reaches the sync check with an empty clip list
C13_ReachesComposition ==
    ~(ZeroSections /\ pc = "checked" /\ clips = <<>> /\ RLt(Zero, hook_dur))

(* C14: for every script with at least one section and a readable          *)
(* narration, reconciliation and scene scheduling run to their end without *)
(* raising, whatever the timing metadata: absent, unparsable, not          *)
(* optimized, optimized with some, none or all sections measured, or       *)
(* optimized with zero-valued durations.                                   *)
C14_ReconciliationNeverRaises ==
    Len(ScheduledNames) > 0 => pc # "crashed"

\* the part of C14 the code does satisfy: every metadata but a zero raw total
C14_NonzeroTotalNeverRaises ==
    (Len(ScheduledNames) > 0
        /\ ~(UsesOptimized(timing_file) /\ RSum(RawDurations) = Zero)) =>
        pc # "crashed"

(* C15: the entries of the timing metadata are used as measured durations  *)
(* only when the document exists, parses and has optimized == true; when   *)
(* it is absent, unparsable or not optimized, no value of it influences    *)
(* any section duration: every duration is the section's word-rate         *)
(* estimate scaled to the narration duration.                              *)
MetadataUsable == timing_file.exists /\ timing_file.parses /\ timing_file.optimized

ScheduledTexts ==
    (IF Truthy(hook) THEN <<hook>> ELSE <<>>)
    \o bullets
    \o (IF Truthy(cta) THEN <<cta>> ELSE <<>>)

\* the share of the narration a section's words give it; with no word in the
\* script, the equal slice of the estimation branch (see C5)
WordShareDurations ==
    LET total_words == TotalWords(AllText(hook, bullets, cta))
    IN  [i \in 1..Len(ScheduledTexts) |->
            IF total_words > 0
            THEN RDiv(RMul(Rat(Words(ScheduledTexts[i])), duration), Rat(total_words))
            ELSE RDiv(duration, Rat(Len(bullets) + 2))]

C15_MetadataGate ==
    Reconciled =>
        /\ total_calculated # None <=> MetadataUsable
        /\ ~MetadataUsable =>
               (pc # "crashed" /\ ScheduledDurations = WordShareDurations)

C15_Witness ==
    /\ pc = "done"
    /\ timing_file.exists /\ timing_file.parses /\ ~timing_file.optimized
    /\ AllMeasured
    /\ AllHaveWords
    /\ Len(bullets) = 1
    /\ MeasuredDurations = <<Rat(3000), Rat(3000), Rat(3000)>>
    /\ ScheduledDurations = <<Rat(2400), Rat(8000), Rat(1600)>>

(* C16: on the optimized-metadata path the raw duration of each section is *)
(* resolved by section name, wherever the entry stands in the list: the    *)
(* measured duration when the metadata has an entry of that name, the      *)
(* estimator's output for that section only when it has none.              *)
RawByName ==
    [i \in 1..Len(ScheduledNames) |->
        IF HasMeasured(ScheduledNames[i])
        THEN MeasuredOf(ScheduledNames[i])
        ELSE EstimateDurationFallback(ScheduledTexts[i], duration,
                                      AllText(hook, bullets, cta))]

C16_ResolvedByName ==
    (Reconciled /\ UsesOptimized(timing_file)) =>
        LET raw == RawByName
            total == RSum(raw)
        IN  /\ total_calculated = Some(total)
            /\ IF NeedsAdjustment(total, duration)
               THEN total # Zero =>
                        ScheduledDurations =
                            [i \in 1..Len(raw) |-> RDiv(RMul(raw[i], duration), total)]
               ELSE ScheduledDurations = raw

\* measured entries listed from cta to hook
C16_Witness ==
    /\ pc = "done"
    /\ UsesOptimized(timing_file)
    /\ Len(timing_file.sections) = 4
    /\ timing_file.sections[1].name = SectionCta
    /\ timing_file.sections[2].name = SectionBullet(1)
    /\ timing_file.sections[4].name = SectionHook
    /\ Truthy(hook) /\ Truthy(cta)
    /\ duration = Rat(6000)
    /\ total_calculated = Some(Rat(3000))
    /\ ScheduledDurations = <<Rat(6000), Zero, Zero, Zero>>

(* C17: reconciliation is deterministic: the section durations and the     *)
(* scene start times are a function of the script, the narration duration  *)
(* and the timing metadata alone, so two runs on the same three inputs     *)
(* give the same values whatever the image generation (random seeds,       *)
(* network, clock) produced.                                               *)
ExpectedDurations ==
    IF UsesOptimized(timing_file)
    THEN LET raw == RawByName
             total == RSum(raw)
         IN  IF NeedsAdjustment(total, duration)
             THEN [i \in 1..Len(raw) |-> RDiv(RMul(raw[i], duration), total)]
             ELSE raw
    ELSE WordShareDurations

ExpectedStarts ==
    [i \in 1..Len(ExpectedDurations) |-> RSum(SubSeq(ExpectedDurations, 1, i - 1))]

C17_Deterministic ==
    Timed =>
        LET expected == ExpectedDurations
        IN  /\ ScheduledDurations = expected
            /\ Built =>
                   /\ SceneDurations = expected
                   /\ \A i \in 1..Len(Scenes) :
                          Scenes[i].start = RSum(SubSeq(expected, 1, i - 1))

\* a finished run in which the image generation failed for the second scene only
C17_Witness ==
    /\ pc = "done"
    /\ Len(Scenes) = 3
    /\ Scenes[1].image = GeneratedImage
    /\ Scenes[2].image = FallbackImage("wake_up")
    /\ Scenes[2].start = Rat(2400)
    /\ Scenes[3].start = Rat(10400)

(* C18: the cross-fade applied to a scene's background and text layers is  *)
(* never longer than half the scene's duration (the 0.3 s fade is clamped  *)
(* for a scene shorter than 0.6 s), so that fade-in plus fade-out fit into *)
(* the scene.                                                              *)
C18_FadeWithinHalfScene ==
    \A i \in 1..Len(clips) :
        RLt(Zero, clips[i].duration) =>
            /\ RLe(Rat(2 * clips[i].fade_in), clips[i].duration)
            /\ RLe(Rat(2 * clips[i].fade_out), clips[i].duration)
            /\ RLe(Rat(clips[i].fade_in + clips[i].fade_out), clips[i].duration)

(* C19: every scene's background spans exactly [start, start + duration)   *)
(* of its section and cross-fades at both ends, except that the first      *)
(* scheduled scene has no fade-in and the last scheduled scene no          *)
(* fade-out.                                                               *)
C19_FadesExceptAtTheEnds ==
    Built =>
        \A i \in 1..Len(Scenes) :
            /\ Scenes[i].start = RSum(SubSeq(ScheduledDurations, 1, i - 1))
            /\ Scenes[i].duration = ScheduledDurations[i]
            /\ Scenes[i].fade_in = (IF i = 1 THEN 0 ELSE CrossFade)
            /\ Scenes[i].fade_out = (IF i = Len(Scenes) THEN 0 ELSE CrossFade)

\* the part of C19 the code does satisfy: the span of every background
C19_BackgroundSpan ==
    Built =>
        \A i \in 1..Len(Scenes) :
            /\ Scenes[i].start = RSum(SubSeq(ScheduledDurations, 1, i - 1))
            /\ Scenes[i].duration = ScheduledDurations[i]

\* a blank bullet between two scenes: its placeholder has no fade at all
C19_MiddlePlaceholderFades ==
    Built =>
        \A i \in 2..(Len(Scenes) - 1) :
            Scenes[i].fade_in = CrossFade /\ Scenes[i].fade_out = CrossFade

(* C20: a missing visual asset is never fatal: the scene gets a            *)
(* solid-colour placeholder whose colour is a fixed function of the        *)
(* section (hook, bullet index modulo 3, cta), with the start time,        *)
(* duration and cross-fades the scene would have had with its image.       *)
\* the place in scene_images that the scene of a section reads
ImageIndex(section) ==
    IF section = SectionHook THEN 1
    ELSE IF section = SectionCta THEN Len(scene_images)
    ELSE IMin(section[2] + 1, Len(scene_images) - 1) + 1

ImageWasMissing(section) == scene_images[ImageIndex(section)] # GeneratedImage

PlaceholderColor(section) ==
    IF section = SectionHook THEN "teal_shadow"
    ELSE IF section = SectionCta THEN "steel_gray"
    ELSE BulletColors[(section[2] % 3) + 1]

BackgroundScenes == {i \in 1..Len(Scenes) : Scenes[i].kind = "background"}

SameTimingAndFades(i) ==
    /\ Scenes[i].start = ExpectedStarts[i]
    /\ Scenes[i].duration = ExpectedDurations[i]
    /\ Scenes[i].fade_in = CrossFade
    /\ Scenes[i].fade_out = CrossFade

C20_SolidColourPlaceholder ==
    Built =>
        \A i \in BackgroundScenes :
            ImageWasMissing(Scenes[i].section) =>
                /\ Scenes[i].image = None
                /\ Scenes[i].color = PlaceholderColor(Scenes[i].section)
                /\ SameTimingAndFades(i)

(* C20 amended: a missing visual asset is never fatal: the validation loop *)
(* replaces it by a generated gradient image picked by the place of the    *)
(* image in scene_images (pain, wake_up, transformation, then action), the *)
(* scene is built from that image like any other, with the start time,     *)
(* duration and cross-fades it would have had with its own image, and the  *)
(* solid colour of create_scene is never shown.                            *)
GradientAt(k) == FallbackImage(scene_types[IMin(k - 1, 3) + 1])

C20_GradientPlaceholder ==
    /\ pc # "start" =>
           \A k \in 1..Len(scene_images) :
               scene_images[k] \in {GeneratedImage, GradientAt(k)}
    /\ Built =>
           \A i \in BackgroundScenes :
               /\ Scenes[i].image = scene_images[ImageIndex(Scenes[i].section)]
               /\ Scenes[i].image # None
               /\ Scenes[i].color = "none"
               /\ SameTimingAndFades(i)

\* a finished run whose hook image was generated and whose cta image was not
C20_Witness ==
    /\ pc = "done"
    /\ Len(bullets) = 1
    /\ Len(Scenes) = 3
    /\ Scenes[1].image = GeneratedImage
    /\ Scenes[3].section = SectionCta
    /\ Scenes[3].image = FallbackImage("transformation")
    /\ Scenes[3].fade_in = CrossFade
    /\ RLt(Zero, Scenes[3].duration)

-----------------------------------------------------------------------------
(* Vocabulary of the text properties.                                      *)

TextReturned == text_pc \in {"sized", "placed"}
CandidateSizes == {70, 65, 60, 55, 50, 45, 40, 35}

\* at no candidate size does the wrapped text meet the height and width bounds
NoSizeFits ==
    \A size \in CandidateSizes :
        TooLarge(smart_text_wrap(scene_text, size, TEXT_MAX_WIDTH, font_loads),
                 size, TEXT_MAX_WIDTH)

RECURSIVE Flatten(_)
Flatten(lines) == IF lines = <<>> THEN <<>> ELSE Head(lines) \o Flatten(Tail(lines))

\* whether a finished line is within max_width, by the measure the wrapping used
LineFits(line) == WrapFits(line, font_size, TEXT_MAX_WIDTH, font_loads)

C22_TextInsideSafeZone ==
    text_pc = "placed" =>
        /\ pos_y >= SAFE_ZONE_MARGIN + TopExtra
        /\ pos_y + text_h <=
               FrameHeight - (SAFE_ZONE_MARGIN + BottomExtra) - Descender(font_size)

(* C23: smart_text_wrap keeps every word whole, on exactly one line and in *)
(* order: the lines joined give back the words of the text; no line is     *)
(* empty; every line of more than one word is within max_width, so only a  *)
(* line of a single word may exceed it.                                    *)
C23_WrapKeepsWords ==
    text_pc \in {"sizing", "sized", "placed"} =>
        /\ Flatten(wrapped) = scene_text
        /\ \A k \in 1..Len(wrapped) :
              /\ wrapped[k] # <<>>
              /\ Len(wrapped[k]) > 1 => LineFits(wrapped[k])

C23_Witness ==
    /\ text_pc = "sized"
    /\ Len(scene_text) = 3
    /\ Len(wrapped) = 2
    /\ \E k \in 1..Len(wrapped) : Len(wrapped[k]) = 1 /\ ~ LineFits(wrapped[k])
    /\ \E k \in 1..Len(wrapped) : Len(wrapped[k]) = 2

(* C24: whenever the reconciliation completes, the realized timeline total *)
(* differs from the narration duration by at most 500 ms: on the optimized *)
(* path, scaled or not, on the estimation path, and on the                 *)
(* equal-distribution path with an empty hook or cta.                      *)
C24_DriftWithinTolerance ==
    (Built /\ Len(ScheduledNames) > 0) =>
        RLe(RAbs(RSub(current_time, duration)), Rat(MismatchTolerance))

\* the same bound away from the equal-distribution path
C24_DriftWithinToleranceUnlessEqualSlices ==
    (Built /\ Len(ScheduledNames) > 0 /\ ~ RawTotalIsZero) =>
        RLe(RAbs(RSub(current_time, duration)), Rat(MismatchTolerance))

-----------------------------------------------------------------------------
(* Vocabulary of the timing-metadata properties.                           *)

\* audio_timing.json has been written by optimize_audio_timing
TimingWritten == tts_pc \in {"optimized", "saved"} /\ timing_file # AbsentFile

WrittenNames == [i \in 1..Len(timing_file.sections) |-> timing_file.sections[i].name]
WrittenDurations ==
    [i \in 1..Len(timing_file.sections) |-> timing_file.sections[i].duration]

(* C25: for every non-empty list of TTS sections and positive measured     *)
(* audio duration, the section timings written by optimize_audio_timing    *)
(* are in script order, start at 0, have end = start + duration, each      *)
(* start at the end of the entry before, have strictly positive durations  *)
(* and durations that sum to the measured audio duration.                  *)
C25_SectionTimingsChain ==
    TimingWritten =>
        LET written == timing_file.sections
            secs == BuildTtsSections(hook, bullets, cta)
        IN  /\ Len(written) = Len(secs)
            /\ \A i \in 1..Len(written) :
                  /\ written[i].name = secs[i].name
                  /\ written[i].end = RAdd(written[i].start, written[i].duration)
                  /\ RLt(Zero, written[i].duration)
                  /\ written[i].start = IF i = 1 THEN Zero ELSE written[i - 1].end
            /\ RSum(WrittenDurations) = probe[1]

C25_Witness ==
    /\ TimingWritten
    /\ Len(timing_file.sections) = 4
    /\ WrittenNames = <<SectionHook, SectionBullet(0), SectionBullet(1), SectionCta>>
    /\ bullets[1] = EmptyText
    /\ probe = Some(Rat(12300))
    /\ timing_file.sections[4].end = Rat(12300)

(* C26: when audio_timing.json was written by generate_tts for the same    *)
(* script, create_video finds a measured entry for every section it        *)
(* schedules: the names written are the names scheduled (hook iff the hook *)
(* is non-empty, bullet_i for every bullet, cta iff the cta is non-empty), *)
(* no duration comes from the estimator, the raw total is the measured     *)
(* total duration, and with a narration of that duration nothing is        *)
(* scaled.                                                                 *)
C26_ProducedMetadataCovers ==
    (Reconciled /\ tts_pc = "saved" /\ UsesOptimized(timing_file)) =>
        /\ WrittenNames = ScheduledNames
        /\ AllMeasured
        /\ RawDurations = WrittenDurations
        /\ total_calculated = Some(probe[1])
        /\ duration = probe[1] =>
               (pc # "crashed" /\ ScheduledDurations = WrittenDurations)

C26_Witness ==
    /\ pc = "done"
    /\ tts_pc = "saved"
    /\ UsesOptimized(timing_file)
    /\ WrittenNames = <<SectionBullet(0), SectionBullet(1), SectionCta>>
    /\ bullets = <<BlankText, 10>>
    /\ duration = Rat(12300)
    /\ current_time = duration

-----------------------------------------------------------------------------
(* Vocabulary of the validator properties.                                 *)

ValidatorReturned == validate_pc \in {"returned", "exited"}
VideoReadable == video_exists /\ video_probe # None

(* C27: validate_video returns is_valid = False exactly when the video     *)
(* file is missing, its duration cannot be read, or strict mode is on and  *)
(* the duration lies outside [9.0, 16.0] s; with a readable video and      *)
(* strict mode off, errors stays empty, overall_status is not FAILED and   *)
(* is_valid is True, whatever the duration and the drift.                  *)
C27_InvalidExactlyWhen ==
    ValidatorReturned =>
        /\ is_valid = Some(FALSE) <=>
               \/ ~ video_exists
               \/ video_probe = None
               \/ strict_mode /\ ~ WithinAcceptable(video_probe[1])
        /\ (VideoReadable /\ ~ strict_mode) =>
               /\ errors = <<>>
               /\ overall_status # "FAILED"
               /\ is_valid = Some(TRUE)

C27_Witness ==
    /\ validate_pc = "returned"
    /\ VideoReadable
    /\ ~ strict_mode
    /\ video_duration = Rat(20000)
    /\ audio_sync = "ACCEPTABLE"
    /\ overall_status = "WARNING"
    /\ is_valid = Some(TRUE)

(* C28: the within_target value main writes is 'true' exactly when the     *)
(* measured video duration lies in [9.0, 16.0] s, every duration in        *)
(* [10.0, 15.0] s included, and 'false' otherwise.                         *)
C28_WithinTargetOutput ==
    (validate_pc = "exited" /\ VideoReadable) =>
        (within_target = "true" <=> WithinAcceptable(video_probe[1]))

-----------------------------------------------------------------------------
(* Vocabulary of the scheduler properties.                                 *)

Now == (hour * 60) + minute

\* the slots of the current weekday within 30 minutes of the current time
SlotsWithinHalfHour ==
    {idx \in 1..Len(ScheduleOf(weekday).times) :
        IAbs(Now - (ScheduleOf(weekday).times[idx] * 60)) <= 30}

\* minutes from the start of the current day to every slot after the current
\* time, over this week and the next
UpcomingSlots ==
    LET slots == {p \in (0..DaysAhead) \X (1..4) :
                     p[2] <= Len(ScheduleOf((weekday + p[1]) % 7).times)}
    IN  {m \in {SlotMinutes(weekday, p[1], p[2]) : p \in slots} : m > Now}

\* the slot returned, in minutes from the start of the current day
ReturnedMinutes ==
    (next_slot[1].day_offset * MinutesPerDay) + (next_slot[1].hour * 60)

(* C29: with ignore_schedule false, should_post_now returns should_post =  *)
(* True exactly when the current time is within 30 minutes, before or      *)
(* after, of one of the weekday's slot hours, with that slot's priority    *)
(* and content type; otherwise it returns (False, 'low', 'off_schedule').  *)
C29_WithinThirtyMinutes ==
    (post_decision # None /\ ~ ignore_schedule) =>
        IF SlotsWithinHalfHour = {}
        THEN post_decision[1] = Decision(FALSE, "low", "off_schedule")
        ELSE \E idx \in SlotsWithinHalfHour :
                 post_decision[1] =
                     Decision(TRUE, ScheduleOf(weekday).priority[idx],
                              ScheduleOf(weekday).content_types[idx])

(* C30: for every current time, get_next_optimal_slot returns a slot,      *)
(* never None, and that slot is the chronologically earliest slot of       *)
(* OPTIMAL_SCHEDULE strictly after the current time, on every weekday,     *)
(* Sunday with its slot hours listed as [6, 8, 21, 1] included.            *)
C30_EarliestUpcomingSlot ==
    next_slot # None =>
        /\ next_slot[1].found
        /\ ReturnedMinutes \in UpcomingSlots
        /\ \A m \in UpcomingSlots : ReturnedMinutes <= m

\* the part of C30 the code does satisfy: a slot after the current time is
\* always returned
C30_SlotAlwaysFound ==
    next_slot # None =>
        /\ next_slot[1].found
        /\ ReturnedMinutes \in UpcomingSlots

====
